---- MODULE Spec2Model ----
(***************************************************************************)
(* Model of the store-api order ingestion service (src/store-api/main.go): *)
(* the startup sequence main -> initDB -> initRedis -> ListenAndServe, the *)
(* /buy handler (method check, decode, sanitize, insert, publish, respond) *)
(* run by concurrent requests, the orders table and the orders channel.    *)
(* Strings are sequences of one-character strings.                         *)
(***************************************************************************)
EXTENDS Integers, Sequences, FiniteSets, TLC

\* ------------------------------------------------------------------ bounds
\* number of concurrent /buy requests
NumRequests == 2
\* longest input string given to SanitizeInput in SanSpec
MaxLen == 3

\* ------------------------------------------------------- program constants
\* for i := 0; i < 10; i++
MaxAttempts == 10
\* product_id VARCHAR(50)
VarcharLen == 50
StatusOK == 200
StatusBadRequest == 400
StatusMethodNotAllowed == 405
StatusInternalServerError == 500

VARIABLES
    phase,        \* position of main() in the startup sequence
    initpc,       \* position inside initDB
    i,            \* initDB's loop counter
    err,          \* initDB's err: TRUE when non-nil
    db,           \* the global store handle: 0 is nil, 1 a handle of sql.Open
    rdb,          \* the global channel handle: 0 is nil, 1 the client of initRedis
    attempts,     \* open-and-ping attempts made by the running initDB call
    waits,        \* time.Sleep calls made by the running initDB call
    schemaExecs,  \* CREATE TABLE IF NOT EXISTS executions of the running initDB call
    pings,        \* rdb.Ping calls made by initRedis
    rerr,         \* initRedis's err: TRUE when non-nil
    health,       \* the last /health response, its code 0 while none was sent
    rows,         \* the orders table
    seq,          \* last value of the SERIAL sequence of orders.id
    channel,      \* messages published on the "orders" channel, in order
    req,          \* the /buy requests: handler position, locals, response
    sanIn,        \* SanSpec: the input string
    sanOut,       \* SanSpec: SanitizeInput(sanIn)
    sanOut2,      \* SanSpec: SanitizeInput(sanOut)
    sanpc         \* SanSpec: position

vars == << phase, initpc, i, err, db, rdb, attempts, waits, schemaExecs,
           pings, rerr, health,
           rows, seq, channel, req, sanIn, sanOut, sanOut2, sanpc >>

redisVars == << pings, rerr >>
bootVars == << phase, initpc, i, err, db, rdb, attempts, waits, schemaExecs,
               pings, rerr >>
storeVars == << rows, seq >>
sanVars == << sanIn, sanOut, sanOut2, sanpc >>

Requests == 1..NumRequests

\* -------------------------------------------------------------- strings
Denylist == { "<", ">", "'", ";" }
Alphabet == Denylist \cup { "a", "b" }

RECURSIVE Repeat(_, _)
Repeat(c, n) == IF n = 0 THEN << >> ELSE << c >> \o Repeat(c, n - 1)

RECURSIVE StringsOfLen(_)
StringsOfLen(n) ==
    IF n = 0 THEN { << >> }
    ELSE { << c >> \o s : c \in Alphabet, s \in StringsOfLen(n - 1) }

RECURSIVE StringsUpTo(_)
StringsUpTo(n) ==
    IF n = 0 THEN StringsOfLen(0) ELSE StringsOfLen(n) \cup StringsUpTo(n - 1)

\* strings.Replace(s, old, new, 1): only the first occurrence
RECURSIVE ReplaceFirst(_, _, _)
ReplaceFirst(s, old, new) ==
    IF s = << >> THEN << >>
    ELSE IF Head(s) = old THEN new \o Tail(s)
    ELSE << Head(s) >> \o ReplaceFirst(Tail(s), old, new)

\* strings.ReplaceAll(s, old, new) for a one-character old
RECURSIVE ReplaceAll(_, _, _)
ReplaceAll(s, old, new) ==
    IF s = << >> THEN << >>
    ELSE (IF Head(s) = old THEN new ELSE << Head(s) >>)
         \o ReplaceAll(Tail(s), old, new)

\* the function without its last ReplaceAll
SanitizeInputNoSemicolon(input) ==
    LET safe1 == ReplaceAll(input, "<", << >>)
        safe2 == ReplaceAll(safe1, ">", << >>)
    IN  ReplaceAll(safe2, "'", << >>)

SanitizeInput(input) ==
    LET safe1 == ReplaceAll(input, "<", << >>)
        safe2 == ReplaceAll(safe1, ">", << >>)
        safe3 == ReplaceAll(safe2, "'", << >>)
    IN  ReplaceAll(safe3, ";", << >>)

\* ------------------------------------------------------- request bodies
\* A body is malformed, or a JSON object whose fields may be absent.
Body(wf, hasP, p, hasQ, q) ==
    [ wellFormed |-> wf, hasProductID |-> hasP, product_id |-> p,
      hasQuantity |-> hasQ, quantity |-> q ]

ScriptTag == << "<", "s", "c", "r", "i", "p", "t", ">" >>

Bodies ==
    { Body(FALSE, FALSE, << >>, FALSE, 0),                       \* not JSON
      Body(TRUE, TRUE, ScriptTag, TRUE, 2),                      \* Scenario A
      Body(TRUE, FALSE, << >>, FALSE, 0),                        \* {}
      Body(TRUE, TRUE, << ";", "'" >>, TRUE, -1),
      Body(TRUE, TRUE, Repeat("a", VarcharLen + 1), TRUE, 1),
      Body(TRUE, TRUE, << "<" >> \o Repeat("b", VarcharLen), TRUE, 3),
      Body(TRUE, TRUE, Repeat("b", VarcharLen) \o << " " >>, TRUE, 4) }

Methods == { "POST", "GET" }

\* the bodies sent with method m: every body with POST, a malformed and a
\* well-formed one with the other methods, whose handling never reads the body
BodiesOf(m) ==
    IF m = "POST" THEN Bodies
    ELSE { Body(FALSE, FALSE, << >>, FALSE, 0), Body(TRUE, TRUE, ScriptTag, TRUE, 2) }

\* json.NewDecoder(r.Body).Decode(&req): an absent field keeps its zero value
DecodeOK(body) == body.wellFormed

Decode(body) ==
    [ ProductID |-> IF body.hasProductID THEN body.product_id ELSE << >>,
      Quantity  |-> IF body.hasQuantity THEN body.quantity ELSE 0 ]

NoResp == [ status |-> "", product_id |-> << >>, order_id |-> 0 ]

IdleReq ==
    [ pc |-> "idle", method |-> "", body |-> Body(FALSE, FALSE, << >>, FALSE, 0),
      safeProductID |-> << >>, quantity |-> 0, orderID |-> 0,
      insTried |-> FALSE, insErr |-> FALSE,
      pubTried |-> FALSE, pubErr |-> FALSE, code |-> 0, resp |-> NoResp,
      inserts |-> 0, publishes |-> 0 ]

\* no /health response yet
NoHealth == [ code |-> 0, body |-> "" ]

\* ------------------------------------------------------------------ Init
MainInit ==
    /\ phase = "Uninitialized"
    /\ initpc = "none"
    /\ i = 0
    /\ err = FALSE
    /\ db = 0
    /\ rdb = 0
    /\ attempts = 0
    /\ waits = 0
    /\ schemaExecs = 0
    /\ pings = 0
    /\ rerr = FALSE
    /\ health = NoHealth
    /\ rows = { }
    /\ seq = 0
    /\ channel = << >>
    /\ req = [ r \in Requests |-> IdleReq ]

Init ==
    /\ MainInit
    /\ sanIn = << >>
    /\ sanOut = << >>
    /\ sanOut2 = << >>
    /\ sanpc = "off"

\* --------------------------------------------------------------- startup
\* main() calls initDB()
MainCallInitDB ==
    /\ phase = "Uninitialized"
    /\ phase' = "StoreConnecting"
    /\ initpc' = "attempt"
    /\ i' = 0
    /\ UNCHANGED << err, db, rdb, attempts, waits, schemaExecs >>
    /\ UNCHANGED << redisVars, health, storeVars, channel, req, sanVars >>

\* the iteration without its break: a successful attempt is followed by the sleep
InitDBAttemptNoBreak ==
    /\ phase = "StoreConnecting"
    /\ initpc = "attempt"
    /\ i < MaxAttempts
    /\ \E ok \in BOOLEAN :
          /\ err' = ~ok
          /\ initpc' = "sleep"
    /\ attempts' = attempts + 1
    /\ db' = 1
    /\ UNCHANGED << phase, i, rdb, waits, schemaExecs >>
    /\ UNCHANGED << redisVars, health, storeVars, channel, req, sanVars >>

\* one iteration of the retry loop up to the break or the sleep:
\* sql.Open then db.Ping; ok is whether the store answers
InitDBAttempt ==
    /\ phase = "StoreConnecting"
    /\ initpc = "attempt"
    /\ i < MaxAttempts
    /\ \E ok \in BOOLEAN :
          /\ err' = ~ok
          /\ initpc' = IF ok THEN "check" ELSE "sleep"
    /\ attempts' = attempts + 1
    /\ db' = 1
    /\ UNCHANGED << phase, i, rdb, waits, schemaExecs >>
    /\ UNCHANGED << redisVars, health, storeVars, channel, req, sanVars >>

\* time.Sleep(2 * time.Second), then i++
InitDBSleep ==
    /\ phase = "StoreConnecting"
    /\ initpc = "sleep"
    /\ waits' = waits + 1
    /\ i' = i + 1
    /\ initpc' = "attempt"
    /\ UNCHANGED << phase, err, db, rdb, attempts, schemaExecs >>
    /\ UNCHANGED << redisVars, health, storeVars, channel, req, sanVars >>

\* the loop condition i < 10 is false
InitDBLoopExit ==
    /\ phase = "StoreConnecting"
    /\ initpc = "attempt"
    /\ ~(i < MaxAttempts)
    /\ initpc' = "check"
    /\ UNCHANGED << phase, i, err, db, rdb, attempts, waits, schemaExecs >>
    /\ UNCHANGED << redisVars, health, storeVars, channel, req, sanVars >>

\* the check after the loop with the fatal exit missing
InitDBCheckNoFatal ==
    /\ phase = "StoreConnecting"
    /\ initpc = "check"
    /\ initpc' = "schema"
    /\ UNCHANGED << phase, i, err, db, rdb, attempts, waits, schemaExecs >>
    /\ UNCHANGED << redisVars, health, storeVars, channel, req, sanVars >>

\* if err != nil { log.Fatalf(...) }
InitDBCheck ==
    /\ phase = "StoreConnecting"
    /\ initpc = "check"
    /\ IF err
       THEN /\ phase' = "Failed"
            /\ initpc' = "none"
       ELSE /\ phase' = phase
            /\ initpc' = "schema"
    /\ UNCHANGED << i, err, db, rdb, attempts, waits, schemaExecs >>
    /\ UNCHANGED << redisVars, health, storeVars, channel, req, sanVars >>


\* the schema statement as DROP TABLE followed by CREATE TABLE: every start
\* of the process empties the table and restarts its sequence
InitDBSchemaRecreates ==
    /\ phase = "StoreConnecting"
    /\ initpc = "schema"
    /\ schemaExecs' = schemaExecs + 1
    /\ \E ok \in BOOLEAN :
          /\ err' = ~ok
          /\ phase' = IF ok THEN phase ELSE "Failed"
          /\ initpc' = IF ok THEN "return" ELSE "none"
          /\ rows' = IF ok THEN { } ELSE rows
          /\ seq' = IF ok THEN 0 ELSE seq
    /\ UNCHANGED << i, db, rdb, attempts, waits >>
    /\ UNCHANGED << redisVars, health, channel, req, sanVars >>

\* db.Exec(createTableQuery); on error log.Fatalf
InitDBSchema ==
    /\ phase = "StoreConnecting"
    /\ initpc = "schema"
    /\ schemaExecs' = schemaExecs + 1
    /\ \E ok \in BOOLEAN :
          /\ err' = ~ok
          /\ phase' = IF ok THEN phase ELSE "Failed"
          /\ initpc' = IF ok THEN "return" ELSE "none"
    /\ UNCHANGED << i, db, rdb, attempts, waits >>
    /\ UNCHANGED << redisVars, health, storeVars, channel, req, sanVars >>

\* initDB returns to main(): its locals and the counts of this call end with it
InitDBReturn ==
    /\ phase = "StoreConnecting"
    /\ initpc = "return"
    /\ phase' = "StoreReady"
    /\ initpc' = "none"
    /\ i' = 0
    /\ err' = FALSE
    /\ attempts' = 0
    /\ waits' = 0
    /\ schemaExecs' = 0
    /\ UNCHANGED << db, rdb >>
    /\ UNCHANGED << redisVars, health, storeVars, channel, req, sanVars >>

\* main() calls initRedis(): redis.NewClient
InitRedisNewClient ==
    /\ phase = "StoreReady"
    /\ phase' = "ChannelConnecting"
    /\ rdb' = 1
    /\ UNCHANGED << initpc, i, err, db, attempts, waits, schemaExecs >>
    /\ UNCHANGED << redisVars, health, storeVars, channel, req, sanVars >>

\* the ping tried again after an error, up to three times, before the fatal exit
InitRedisPingRetry ==
    /\ phase = "ChannelConnecting"
    /\ pings' = pings + 1
    /\ \E ok \in BOOLEAN :
          /\ rerr' = ~ok
          /\ phase' = IF ok THEN "ChannelReady"
                      ELSE IF pings < 2 THEN phase ELSE "Failed"
    /\ UNCHANGED << initpc, i, err, db, rdb, attempts, waits, schemaExecs >>
    /\ UNCHANGED << health, storeVars, channel, req, sanVars >>

\* rdb.Ping(ctx).Result(); on error log.Fatalf
InitRedisPing ==
    /\ phase = "ChannelConnecting"
    /\ pings' = pings + 1
    /\ \E ok \in BOOLEAN :
          /\ rerr' = ~ok
          /\ phase' = IF ok THEN "ChannelReady" ELSE "Failed"
    /\ UNCHANGED << initpc, i, err, db, rdb, attempts, waits, schemaExecs >>
    /\ UNCHANGED << health, storeVars, channel, req, sanVars >>

\* main() without its initRedis() call: the listener starts after initDB
MainListenSkipsChannel ==
    /\ phase \in { "StoreReady", "ChannelReady" }
    /\ \E ok \in BOOLEAN :
          phase' = IF ok THEN "Serving" ELSE "Failed"
    /\ UNCHANGED << initpc, i, err, db, rdb, attempts, waits, schemaExecs >>
    /\ UNCHANGED << redisVars, health, storeVars, channel, req, sanVars >>

\* http.HandleFunc twice, then http.ListenAndServe; on error log.Fatalf
MainListen ==
    /\ phase = "ChannelReady"
    /\ \E ok \in BOOLEAN :
          phase' = IF ok THEN "Serving" ELSE "Failed"
    /\ UNCHANGED << initpc, i, err, db, rdb, attempts, waits, schemaExecs >>
    /\ UNCHANGED << redisVars, health, storeVars, channel, req, sanVars >>

\* ------------------------------------------------------------ buyHandler
\* the handler with the body decoded before the method is looked at
BuyReceiveDecodeFirst(r) ==
    /\ phase = "Serving"
    /\ req[r].pc = "idle"
    /\ \E m \in Methods : \E b \in BodiesOf(m) :
          req' = [ req EXCEPT ![r] =
                     IF ~DecodeOK(b)
                     THEN [ @ EXCEPT !.method = m, !.body = b, !.pc = "done",
                                     !.code = StatusBadRequest ]
                     ELSE IF m # "POST"
                     THEN [ @ EXCEPT !.method = m, !.body = b, !.pc = "done",
                                     !.code = StatusMethodNotAllowed ]
                     ELSE [ @ EXCEPT !.method = m, !.body = b, !.pc = "insert",
                                     !.safeProductID = SanitizeInput(Decode(b).ProductID),
                                     !.quantity = Decode(b).Quantity ] ]
    /\ UNCHANGED << bootVars, health, storeVars, channel, sanVars >>

\* the handler with the decode error dropped: req keeps its zero values
BuyReceiveIgnoreDecodeErr(r) ==
    /\ phase = "Serving"
    /\ req[r].pc = "idle"
    /\ \E m \in Methods : \E b \in BodiesOf(m) :
          req' = [ req EXCEPT ![r] =
                     IF m # "POST"
                     THEN [ @ EXCEPT !.method = m, !.body = b, !.pc = "done",
                                     !.code = StatusMethodNotAllowed ]
                     ELSE IF ~DecodeOK(b)
                     THEN [ @ EXCEPT !.method = m, !.body = b, !.pc = "insert" ]
                     ELSE [ @ EXCEPT !.method = m, !.body = b, !.pc = "insert",
                                     !.safeProductID = SanitizeInput(Decode(b).ProductID),
                                     !.quantity = Decode(b).Quantity ] ]
    /\ UNCHANGED << bootVars, health, storeVars, channel, sanVars >>


\* the handler with a validation step: an empty sanitized product identifier
\* is answered 400
BuyReceiveRejectsEmpty(r) ==
    /\ phase = "Serving"
    /\ req[r].pc = "idle"
    /\ \E m \in Methods : \E b \in BodiesOf(m) :
          req' = [ req EXCEPT ![r] =
                     IF m # "POST"
                     THEN [ @ EXCEPT !.method = m, !.body = b, !.pc = "done",
                                     !.code = StatusMethodNotAllowed ]
                     ELSE IF ~DecodeOK(b)
                     THEN [ @ EXCEPT !.method = m, !.body = b, !.pc = "done",
                                     !.code = StatusBadRequest ]
                     ELSE IF SanitizeInput(Decode(b).ProductID) = << >>
                     THEN [ @ EXCEPT !.method = m, !.body = b, !.pc = "done",
                                     !.safeProductID = << >>,
                                     !.quantity = Decode(b).Quantity,
                                     !.code = StatusBadRequest ]
                     ELSE [ @ EXCEPT !.method = m, !.body = b, !.pc = "insert",
                                     !.safeProductID = SanitizeInput(Decode(b).ProductID),
                                     !.quantity = Decode(b).Quantity ] ]
    /\ UNCHANGED << bootVars, health, storeVars, channel, sanVars >>

\* the handler up to the insert: method check, decode, sanitize
BuyReceive(r) ==
    /\ phase = "Serving"
    /\ req[r].pc = "idle"
    /\ \E m \in Methods : \E b \in BodiesOf(m) :
          req' = [ req EXCEPT ![r] =
                     IF m # "POST"
                     THEN [ @ EXCEPT !.method = m, !.body = b, !.pc = "done",
                                     !.code = StatusMethodNotAllowed ]
                     ELSE IF ~DecodeOK(b)
                     THEN [ @ EXCEPT !.method = m, !.body = b, !.pc = "done",
                                     !.code = StatusBadRequest ]
                     ELSE [ @ EXCEPT !.method = m, !.body = b, !.pc = "insert",
                                     !.safeProductID = SanitizeInput(Decode(b).ProductID),
                                     !.quantity = Decode(b).Quantity ] ]
    /\ UNCHANGED << bootVars, health, storeVars, channel, sanVars >>

\* the value a VARCHAR(50) column keeps: a value of at most 50 characters as
\* it is, a longer one (accepted only when its excess is spaces) cut to 50
StoredProductID(productID) ==
    IF Len(productID) <= VarcharLen THEN productID
    ELSE SubSeq(productID, 1, VarcharLen)

\* the row INSERT ... VALUES ($1, $2, 'pending') RETURNING id creates
NewRow(id, productID, quantity) ==
    [ id |-> id, product_id |-> StoredProductID(productID), quantity |-> quantity,
      status |-> "pending" ]

\* whether the store accepts the row: it is reachable (ok), and product_id
\* fits VARCHAR(50): storing a longer value is an error unless the characters
\* beyond the 50th are all spaces
InsertAccepted(ok, productID) ==
    /\ ok
    /\ \A k \in (VarcharLen + 1)..Len(productID) : productID[k] = " "

\* the insert with its error never looked at: the handler goes on to publish
BuyInsertIgnoreErr(r) ==
    /\ phase = "Serving"
    /\ req[r].pc = "insert"
    /\ \E ok \in BOOLEAN :
          IF InsertAccepted(ok, req[r].safeProductID)
          THEN /\ seq' = seq + 1
               /\ rows' = rows \cup
                          { NewRow(seq + 1, req[r].safeProductID, req[r].quantity) }
               /\ req' = [ req EXCEPT ![r].orderID = seq + 1,
                                      ![r].insTried = TRUE, ![r].inserts = @ + 1,
                                      ![r].insErr = FALSE,
                                      ![r].pc = "publish" ]
          ELSE /\ UNCHANGED << seq, rows >>
               /\ req' = [ req EXCEPT ![r].insTried = TRUE, ![r].inserts = @ + 1,
                                      ![r].insErr = TRUE,
                                      ![r].pc = "publish" ]
    /\ UNCHANGED << bootVars, health, channel, sanVars >>

\* the insert with the return of its error branch missing: 500 is written and
\* the handler goes on to publish
BuyInsertNoReturn(r) ==
    /\ phase = "Serving"
    /\ req[r].pc = "insert"
    /\ \E ok \in BOOLEAN :
          IF InsertAccepted(ok, req[r].safeProductID)
          THEN /\ seq' = seq + 1
               /\ rows' = rows \cup
                          { NewRow(seq + 1, req[r].safeProductID, req[r].quantity) }
               /\ req' = [ req EXCEPT ![r].orderID = seq + 1,
                                      ![r].insTried = TRUE, ![r].inserts = @ + 1,
                                      ![r].insErr = FALSE,
                                      ![r].pc = "publish" ]
          ELSE /\ UNCHANGED << seq, rows >>
               /\ req' = [ req EXCEPT ![r].insTried = TRUE, ![r].inserts = @ + 1,
                                      ![r].insErr = TRUE,
                                      ![r].code = StatusInternalServerError,
                                      ![r].pc = "publish" ]
    /\ UNCHANGED << bootVars, health, channel, sanVars >>

\* the insert with an identifier that is not drawn from the advancing sequence
BuyInsertSeqNotAdvanced(r) ==
    /\ phase = "Serving"
    /\ req[r].pc = "insert"
    /\ \E ok \in BOOLEAN :
          IF InsertAccepted(ok, req[r].safeProductID)
          THEN /\ seq' = 1
               /\ rows' = rows \cup
                          { NewRow(1, req[r].safeProductID, req[r].quantity) }
               /\ req' = [ req EXCEPT ![r].orderID = 1,
                                      ![r].insTried = TRUE, ![r].inserts = @ + 1,
                                      ![r].insErr = FALSE,
                                      ![r].pc = "publish" ]
          ELSE /\ UNCHANGED << seq, rows >>
               /\ req' = [ req EXCEPT ![r].insTried = TRUE, ![r].inserts = @ + 1,
                                      ![r].insErr = TRUE,
                                      ![r].pc = "done",
                                      ![r].code = StatusInternalServerError ]
    /\ UNCHANGED << bootVars, health, channel, sanVars >>


\* the 200 response written as soon as the row exists, before the publish
BuyInsertRespondsFirst(r) ==
    /\ phase = "Serving"
    /\ req[r].pc = "insert"
    /\ \E ok \in BOOLEAN :
          IF InsertAccepted(ok, req[r].safeProductID)
          THEN /\ seq' = seq + 1
               /\ rows' = rows \cup
                          { NewRow(seq + 1, req[r].safeProductID, req[r].quantity) }
               /\ req' = [ req EXCEPT ![r].orderID = seq + 1,
                                      ![r].insTried = TRUE, ![r].inserts = @ + 1,
                                      ![r].insErr = FALSE,
                                      ![r].code = StatusOK,
                                      ![r].resp = [ status |-> "Order processed",
                                                    product_id |-> req[r].safeProductID,
                                                    order_id |-> seq + 1 ],
                                      ![r].pc = "publish" ]
          ELSE /\ UNCHANGED << seq, rows >>
               /\ req' = [ req EXCEPT ![r].insTried = TRUE, ![r].inserts = @ + 1,
                                      ![r].insErr = TRUE,
                                      ![r].pc = "done",
                                      ![r].code = StatusInternalServerError ]
    /\ UNCHANGED << bootVars, health, channel, sanVars >>


\* the insert whose error ends the process, as the startup errors do
BuyInsertFatalOnErr(r) ==
    /\ phase = "Serving"
    /\ req[r].pc = "insert"
    /\ \E ok \in BOOLEAN :
          IF InsertAccepted(ok, req[r].safeProductID)
          THEN /\ seq' = seq + 1
               /\ rows' = rows \cup
                          { NewRow(seq + 1, req[r].safeProductID, req[r].quantity) }
               /\ req' = [ req EXCEPT ![r].orderID = seq + 1,
                                      ![r].insTried = TRUE, ![r].inserts = @ + 1,
                                      ![r].insErr = FALSE,
                                      ![r].pc = "publish" ]
               /\ phase' = phase
          ELSE /\ UNCHANGED << seq, rows >>
               /\ req' = [ req EXCEPT ![r].insTried = TRUE, ![r].inserts = @ + 1,
                                      ![r].insErr = TRUE,
                                      ![r].pc = "done" ]
               /\ phase' = "Failed"
    /\ UNCHANGED << initpc, i, err, db, rdb, attempts, waits, schemaExecs,
                    redisVars, health, channel, sanVars >>


\* the insert under a mutex that a handler holds from its insert to its
\* response: it waits while another request is past its insert
BuyInsertUnderLock(r) ==
    /\ phase = "Serving"
    /\ req[r].pc = "insert"
    /\ \A o \in Requests \ { r } : req[o].pc \notin { "publish", "respond" }
    /\ \E ok \in BOOLEAN :
          IF InsertAccepted(ok, req[r].safeProductID)
          THEN /\ seq' = seq + 1
               /\ rows' = rows \cup
                          { NewRow(seq + 1, req[r].safeProductID, req[r].quantity) }
               /\ req' = [ req EXCEPT ![r].orderID = seq + 1,
                                      ![r].insTried = TRUE, ![r].inserts = @ + 1,
                                      ![r].insErr = FALSE,
                                      ![r].pc = "publish" ]
          ELSE /\ UNCHANGED << seq, rows >>
               /\ req' = [ req EXCEPT ![r].insTried = TRUE, ![r].inserts = @ + 1,
                                      ![r].insErr = TRUE,
                                      ![r].pc = "done",
                                      ![r].code = StatusInternalServerError ]
    /\ UNCHANGED << bootVars, health, channel, sanVars >>

\* db.QueryRow("INSERT ...").Scan(&orderID) and the err != nil branch
BuyInsert(r) ==
    /\ phase = "Serving"
    /\ req[r].pc = "insert"
    /\ \E ok \in BOOLEAN :
          IF InsertAccepted(ok, req[r].safeProductID)
          THEN /\ seq' = seq + 1
               /\ rows' = rows \cup
                          { NewRow(seq + 1, req[r].safeProductID, req[r].quantity) }
               /\ req' = [ req EXCEPT ![r].orderID = seq + 1,
                                      ![r].insTried = TRUE, ![r].inserts = @ + 1,
                                      ![r].insErr = FALSE,
                                      ![r].pc = "publish" ]
          ELSE /\ UNCHANGED << seq, rows >>
               /\ req' = [ req EXCEPT ![r].insTried = TRUE, ![r].inserts = @ + 1,
                                      ![r].insErr = TRUE,
                                      ![r].pc = "done",
                                      ![r].code = StatusInternalServerError ]
    /\ UNCHANGED << bootVars, health, channel, sanVars >>

\* the orderMsg map given to json.Marshal
OrderMsg(orderID, productID, quantity) ==
    [ order_id |-> orderID, product_id |-> productID, quantity |-> quantity ]

\* the publish with its error answered like the insert's: 500 and return
BuyPublishFailsRequest(r) ==
    /\ phase = "Serving"
    /\ req[r].pc = "publish"
    /\ \E ok \in BOOLEAN :
          /\ channel' = IF ok
                        THEN Append(channel,
                                    OrderMsg(req[r].orderID, req[r].safeProductID,
                                             req[r].quantity))
                        ELSE channel
          /\ req' = [ req EXCEPT ![r].pubTried = TRUE, ![r].publishes = @ + 1,
                                 ![r].pubErr = ~ok,
                                 ![r].code = IF ok THEN @ ELSE StatusInternalServerError,
                                 ![r].pc = IF ok THEN "respond" ELSE "done" ]
    /\ UNCHANGED << bootVars, health, storeVars, sanVars >>

\* the publish tried again after an error, up to three times
BuyPublishRetry(r) ==
    /\ phase = "Serving"
    /\ req[r].pc = "publish"
    /\ \E ok \in BOOLEAN :
          /\ channel' = IF ok
                        THEN Append(channel,
                                    OrderMsg(req[r].orderID, req[r].safeProductID,
                                             req[r].quantity))
                        ELSE channel
          /\ req' = [ req EXCEPT ![r].pubTried = TRUE, ![r].publishes = @ + 1,
                                 ![r].pubErr = ~ok,
                                 ![r].pc = IF ok \/ req[r].publishes >= 2
                                           THEN "respond" ELSE "publish" ]
    /\ UNCHANGED << bootVars, health, storeVars, sanVars >>


\* the publish that also marks the order's row as notified when it succeeds
BuyPublishMarksRow(r) ==
    /\ phase = "Serving"
    /\ req[r].pc = "publish"
    /\ \E ok \in BOOLEAN :
          /\ channel' = IF ok
                        THEN Append(channel,
                                    OrderMsg(req[r].orderID, req[r].safeProductID,
                                             req[r].quantity))
                        ELSE channel
          /\ rows' = IF ok
                     THEN { IF row.id = req[r].orderID
                            THEN [ row EXCEPT !.status = "notified" ] ELSE row :
                            row \in rows }
                     ELSE rows
          /\ req' = [ req EXCEPT ![r].pubTried = TRUE, ![r].publishes = @ + 1,
                                 ![r].pubErr = ~ok,
                                 ![r].pc = "respond" ]
    /\ UNCHANGED << bootVars, health, seq, sanVars >>

\* rdb.Publish(ctx, "orders", msgBytes).Err(); an error is only logged
BuyPublish(r) ==
    /\ phase = "Serving"
    /\ req[r].pc = "publish"
    /\ \E ok \in BOOLEAN :
          /\ channel' = IF ok
                        THEN Append(channel,
                                    OrderMsg(req[r].orderID, req[r].safeProductID,
                                             req[r].quantity))
                        ELSE channel
          /\ req' = [ req EXCEPT ![r].pubTried = TRUE, ![r].publishes = @ + 1,
                                 ![r].pubErr = ~ok,
                                 ![r].pc = "respond" ]
    /\ UNCHANGED << bootVars, health, storeVars, sanVars >>

\* the payload of the 200 response
OkPayload(productID, orderID) ==
    [ status |-> "Order processed", product_id |-> productID, order_id |-> orderID ]

\* the success answered 201 Created
BuyRespondCreated(r) ==
    /\ phase = "Serving"
    /\ req[r].pc = "respond"
    /\ req' = [ req EXCEPT ![r].code = 201,
                           ![r].resp = OkPayload(req[r].safeProductID, req[r].orderID),
                           ![r].pc = "done" ]
    /\ UNCHANGED << bootVars, health, storeVars, channel, sanVars >>

\* w.WriteHeader(http.StatusOK) and the JSON payload
BuyRespond(r) ==
    /\ phase = "Serving"
    /\ req[r].pc = "respond"
    /\ req' = [ req EXCEPT ![r].code = StatusOK,
                           ![r].resp = OkPayload(req[r].safeProductID, req[r].orderID),
                           ![r].pc = "done" ]
    /\ UNCHANGED << bootVars, health, storeVars, channel, sanVars >>

\* /health answered after a ping of the store: 503 when it fails
healthHandlerChecksStore ==
    /\ phase = "Serving"
    /\ \E m \in Methods, ok \in BOOLEAN :
          health' = [ code |-> IF ok THEN StatusOK ELSE 503,
                      body |-> IF ok THEN "OK" ELSE "" ]
    /\ UNCHANGED << bootVars, storeVars, channel, req, sanVars >>

\* what the /health handler writes for a request of method m:
\* w.WriteHeader(http.StatusOK); w.Write([]byte("OK"))
HealthResponse(m) == [ code |-> StatusOK, body |-> "OK" ]


\* /health served by a listener that is started before initDB is called
healthHandlerBeforeStartup ==
    /\ phase # "Failed"
    /\ \E m \in Methods : health' = HealthResponse(m)
    /\ UNCHANGED << bootVars, storeVars, channel, req, sanVars >>

\* the /health handler, for a request of any method; it runs once
\* ListenAndServe serves
healthHandler ==
    /\ phase = "Serving"
    /\ \E m \in Methods : health' = HealthResponse(m)
    /\ UNCHANGED << bootVars, storeVars, channel, req, sanVars >>

buyHandler(r) ==
    \/ BuyReceive(r)
    \/ BuyInsert(r)
    \/ BuyPublish(r)
    \/ BuyRespond(r)

initDB ==
    \/ InitDBAttempt
    \/ InitDBSleep
    \/ InitDBLoopExit
    \/ InitDBCheck
    \/ InitDBSchema
    \/ InitDBReturn

initRedis ==
    \/ InitRedisNewClient
    \/ InitRedisPing

Next ==
    \/ MainCallInitDB
    \/ initDB
    \/ initRedis
    \/ MainListen
    \/ healthHandler
    \/ \E r \in Requests : buyHandler(r)

Spec == Init /\ [][Next]_vars


\* ------------------------------------------------- process exit and restart
\* The process ends at any point (a kill, a crash, the end of its container):
\* its memory is gone, with it the handles and every handler that was running,
\* whose request is never answered. The table, the messages already published
\* and the responses already sent stay.
ProcessExit ==
    /\ phase \notin { "Exited", "Failed" }
    /\ phase' = "Exited"
    /\ initpc' = "none"
    /\ i' = 0
    /\ err' = FALSE
    /\ db' = 0
    /\ rdb' = 0
    /\ attempts' = 0
    /\ waits' = 0
    /\ schemaExecs' = 0
    /\ pings' = 0
    /\ rerr' = FALSE
    /\ req' = [ r \in Requests |->
                  IF req[r].pc \in { "insert", "publish", "respond" }
                  THEN [ req[r] EXCEPT !.pc = "aborted" ]
                  ELSE req[r] ]
    /\ UNCHANGED << health, storeVars, channel, sanVars >>

\* the program is started again: main() runs from its first statement, with
\* the globals at their zero values, against the same store and channel
ProcessRestart ==
    /\ phase \in { "Exited", "Failed" }
    /\ phase' = "Uninitialized"
    /\ initpc' = "none"
    /\ i' = 0
    /\ err' = FALSE
    /\ db' = 0
    /\ rdb' = 0
    /\ attempts' = 0
    /\ waits' = 0
    /\ schemaExecs' = 0
    /\ pings' = 0
    /\ rerr' = FALSE
    /\ UNCHANGED << health, storeVars, channel, req, sanVars >>

CrashNext ==
    \/ Next
    \/ ProcessExit
    \/ ProcessRestart

\* the program with exits at any point and restarts
CrashSpec == Init /\ [][CrashNext]_vars

\* ------------------------------------------- SanitizeInput on all inputs
SanInit ==
    /\ MainInit
    /\ sanIn \in StringsUpTo(MaxLen) \cup { ScriptTag }
    /\ sanOut = << >>
    /\ sanOut2 = << >>
    /\ sanpc = "start"

SanApply ==
    /\ sanpc = "start"
    /\ sanOut' = SanitizeInput(sanIn)
    /\ sanpc' = "once"
    /\ UNCHANGED << sanIn, sanOut2 >>
    /\ UNCHANGED << bootVars, health, storeVars, channel, req >>

SanApplyAgain ==
    /\ sanpc = "once"
    /\ sanOut2' = SanitizeInput(sanOut)
    /\ sanpc' = "twice"
    /\ UNCHANGED << sanIn, sanOut >>
    /\ UNCHANGED << bootVars, health, storeVars, channel, req >>

SanNext ==
    \/ SanApply
    \/ SanApplyAgain

SanSpec == SanInit /\ [][SanNext]_vars

\* the main goroutine keeps running its sequential startup code
FairSpec ==
    /\ Spec
    /\ WF_vars(MainCallInitDB \/ initDB \/ initRedis \/ MainListen)


\* the steps of a request's handler after it was taken up: each is a call
\* that returns, or the writing of the response
BuyStep(r) == BuyInsert(r) \/ BuyPublish(r) \/ BuyRespond(r)

\* net/http runs every request's handler on a goroutine of its own, and every
\* store and channel call returns: while some handler has a step to take, a
\* handler step is taken
LiveSpec ==
    /\ Spec
    /\ WF_vars(\E r \in Requests : BuyStep(r))

\* requests whose insert returned an identifier
Inserted == { r \in Requests : req[r].insTried /\ ~req[r].insErr }

\* requests whose publish returned no error
Announced == { r \in Requests : req[r].pubTried /\ ~req[r].pubErr }

\* the rows and the messages are exactly those of the successful inserts and
\* publishes: no other request left one
EffectsAccounted ==
    /\ Cardinality(rows) = Cardinality(Inserted)
    /\ seq = Cardinality(Inserted)
    /\ Len(channel) = Cardinality(Announced)

RowsWithID(id) == { row \in rows : row.id = id }

MsgsWithID(id) == { k \in 1..Len(channel) : channel[k].order_id = id }

\* the characters of s outside the denylist, in their order
NotDenied(c) == c \notin Denylist
Stripped(s) == SelectSeq(s, NotDenied)

\* C1: every notification on the orders channel carries the identifier of a
\* row that is in the store, whatever the interleaving of the requests and
\* whichever inserts and publishes failed.
C1_NotificationHasRow ==
    \A k \in 1..Len(channel) : RowsWithID(channel[k].order_id) # { }

\* a notification is on the channel while another request sits between its
\* insert and its publish
C1_Witness ==
    /\ channel # << >>
    /\ \E r \in Requests : req[r].pc = "publish"

\* C2: a request whose insert succeeded and whose publish failed created
\* exactly one row, gets 200 with that row's order_id, no notification for
\* that order is on the channel, and its response is the payload built from
\* the sanitized product identifier and the order identifier alone.
C2_PublishFailureIsSilent ==
    \A r \in Requests :
        (req[r].pubTried /\ req[r].pubErr) =>
            /\ req[r].pc \in { "respond", "done" }
            /\ Cardinality(RowsWithID(req[r].orderID)) = 1
            /\ MsgsWithID(req[r].orderID) = { }
            /\ Cardinality(rows) = Cardinality(Inserted)
            /\ req[r].pc = "done" =>
                  /\ req[r].code = StatusOK
                  /\ req[r].resp = [ status |-> "Order processed",
                                     product_id |-> req[r].safeProductID,
                                     order_id |-> req[r].orderID ]

C2_Witness ==
    \E r \in Requests :
        /\ req[r].pc = "done"
        /\ req[r].pubTried /\ req[r].pubErr
        /\ req[r].code = StatusOK
        /\ req[r].resp.order_id = 1

\* C3: a request whose insert failed is answered 500, holds no identifier,
\* never attempts a publish, and leaves no row and no notification behind.
C3_InsertFailureAborts ==
    /\ \A r \in Requests :
          (req[r].insTried /\ req[r].insErr) =>
              /\ req[r].pc = "done"
              /\ req[r].code = StatusInternalServerError
              /\ req[r].orderID = 0
              /\ ~req[r].pubTried
    /\ EffectsAccounted

C3_Witness ==
    \E r \in Requests :
        /\ req[r].insTried /\ req[r].insErr
        /\ req[r].code = StatusInternalServerError
        /\ Len(req[r].safeProductID) <= VarcharLen
        /\ rows # { }

\* C4: the order_id of every 200 response identifies exactly one row, whose
\* product identifier is the request's product identifier without the
\* denylisted characters and whose quantity is the request's quantity.
C4_ResponseIdentifiesRow ==
    \A r \in Requests :
        req[r].code = StatusOK =>
            /\ Cardinality(RowsWithID(req[r].resp.order_id)) = 1
            /\ \A row \in RowsWithID(req[r].resp.order_id) :
                  /\ row.product_id = Stripped(Decode(req[r].body).ProductID)
                  /\ row.quantity = Decode(req[r].body).Quantity
                  /\ row.product_id = req[r].resp.product_id

C6_SanitizeIdempotent ==
    /\ sanpc = "twice" => sanOut2 = sanOut
    /\ (sanpc \in { "once", "twice" } /\ \A k \in 1..Len(sanIn) : sanIn[k] \notin Denylist)
          => sanOut = sanIn

C6_Witness ==
    /\ sanpc = "twice"
    /\ sanIn = << "<", "<", "a" >>
    /\ sanOut2 = << "a" >>

\* C7: a request whose method is not POST is answered 405 whatever its body
\* is, and inserts no row and publishes no notification.
C7_NonPostIs405 ==
    /\ \A r \in Requests :
          (req[r].method # "" /\ req[r].method # "POST") =>
              /\ req[r].pc = "done"
              /\ req[r].code = StatusMethodNotAllowed
              /\ ~req[r].insTried
              /\ ~req[r].pubTried
              /\ req[r].orderID = 0
    /\ Cardinality(rows) = Cardinality(Inserted)
    /\ Len(channel) = Cardinality(Announced)

\* a GET with a malformed body was answered 405
C7_Witness ==
    \E r \in Requests :
        /\ req[r].method = "GET"
        /\ ~DecodeOK(req[r].body)
        /\ req[r].code = StatusMethodNotAllowed

\* C8: a POST whose body cannot be decoded is answered 400, and inserts no
\* row and publishes no notification.
C8_MalformedIs400 ==
    /\ \A r \in Requests :
          (req[r].method = "POST" /\ ~DecodeOK(req[r].body)) =>
              /\ req[r].pc = "done"
              /\ req[r].code = StatusBadRequest
              /\ ~req[r].insTried
              /\ ~req[r].pubTried
              /\ req[r].orderID = 0
    /\ seq = Cardinality(Inserted)
    /\ Cardinality(rows) = seq
    /\ Len(channel) = Cardinality(Announced)

C8_Witness ==
    \E r \in Requests :
        /\ req[r].method = "POST"
        /\ ~DecodeOK(req[r].body)
        /\ req[r].code = StatusBadRequest
        /\ rows = { }

\* all ten attempts were made and each was followed by its sleep: none connected
AllAttemptsFailed == attempts = MaxAttempts /\ waits = MaxAttempts

\* the schema statement was executed and returned an error
SchemaFailed == schemaExecs > 0 /\ err

NoRequestHandled ==
    /\ \A r \in Requests : req[r] = IdleReq
    /\ rows = { }
    /\ channel = << >>

\* C9: when no bootstrap attempt connected, or the schema statement failed,
\* the process is on its way to the failed state or in it, it gets there,
\* the failed state is never left, and no /buy request is ever handled.
C9_StartupFailureIsFatal ==
    /\ [] ((AllAttemptsFailed \/ SchemaFailed) =>
              /\ phase \in { "StoreConnecting", "Failed" }
              /\ NoRequestHandled)
    /\ [] (phase = "Failed" => NoRequestHandled)
    /\ [][phase # "Failed"]_vars
    /\ ((AllAttemptsFailed \/ SchemaFailed) ~> (phase = "Failed"))

\* the process failed after ten failed attempts
C9_Witness ==
    /\ phase = "Failed"
    /\ AllAttemptsFailed
    /\ schemaExecs = 0

\* C10: at most 10 attempts are made; an attempt is made only when every
\* earlier attempt failed; a successful attempt is followed by the schema
\* statement; the schema statement is executed at most once, only after a
\* successful attempt, and exactly once when initDB returns.
C10_BoundedRetry ==
    /\ [] (attempts <= MaxAttempts)
    /\ [] (schemaExecs <= 1)
    /\ [] (schemaExecs = 1 => (attempts >= 1 /\ waits = attempts - 1 /\ db = 1))
    /\ [] (initpc = "return" => (schemaExecs = 1 /\ ~err))
    /\ [][(phase' = "StoreReady" /\ phase # "StoreReady") => initpc = "return"]_vars
    /\ [][attempts' > attempts => (attempts = 0 \/ err)]_vars
    /\ [][(initpc = "check" /\ ~err) => (initpc' = "schema" /\ phase' = phase)]_vars
    /\ [][schemaExecs' > schemaExecs => (initpc = "schema" /\ ~err)]_vars

\* the store answered the tenth attempt after nine failures, the schema
\* statement ran and initDB is returning to main()
C10_Witness ==
    /\ attempts = MaxAttempts
    /\ waits = MaxAttempts - 1
    /\ schemaExecs = 1
    /\ initpc = "return"

\* C11: initRedis pings the channel once and never again; a failed ping puts
\* the process in the failed state at once, with the store handle open, and
\* no /buy request is handled then or later; the phases after the ping are
\* entered only with one successful ping.
C11_ChannelPingOnceFatal ==
    /\ [] (pings <= 1)
    /\ [] (rerr => (phase = "Failed" /\ db = 1 /\ NoRequestHandled))
    /\ [] (phase \in { "ChannelReady", "Serving" } => (pings = 1 /\ ~rerr))
    /\ [][pings' > pings => (phase = "ChannelConnecting" /\ pings = 0)]_vars
    /\ [][phase # "Failed"]_vars

\* the store was connected and its schema ensured, and the one ping failed
C11_Witness ==
    /\ phase = "Failed"
    /\ rerr
    /\ pings = 1
    /\ db = 1
    /\ ~err

\* the startup phases in their order
PhaseOrder ==
    << "Uninitialized", "StoreConnecting", "StoreReady",
       "ChannelConnecting", "ChannelReady", "Serving" >>

PhaseIndex(p) == CHOOSE k \in 1..Len(PhaseOrder) : PhaseOrder[k] = p

\* C12: the phase changes only to the next phase of the order, or to the
\* failed state from a phase before Serving; the failed state is never left
\* and handles no request; StoreReady is entered with the store connected
\* and the schema statement executed without error, the channel phases only
\* with the store handle open, Serving only with both handles and a
\* successful channel ping.
C12_PhaseOrder ==
    /\ [][phase' # phase =>
            /\ phase # "Failed"
            /\ IF phase' = "Failed"
               THEN phase # "Serving"
               ELSE PhaseIndex(phase') = PhaseIndex(phase) + 1]_vars
    /\ [][(phase' = "StoreReady" /\ phase # "StoreReady")
             => (schemaExecs = 1 /\ ~err /\ db = 1)]_vars
    /\ [] (phase \in { "ChannelConnecting", "ChannelReady", "Serving" } => db = 1)
    /\ [] (phase = "Serving" => (db = 1 /\ rdb = 1 /\ pings = 1 /\ ~rerr))
    /\ [] (phase # "Serving" => NoRequestHandled)

\* the process serves a request after walking the whole order
C12_Witness ==
    /\ phase = "Serving"
    /\ \E r \in Requests : req[r].pc = "done"

\* C13: every /health response is 200 with body OK, whatever the method and
\* whatever happened to the store and channel calls of the requests, and
\* answering it changes no row, no notification and no /buy request.
C13_HealthAlwaysOK ==
    /\ [] (health.code # 0 => (health.code = StatusOK /\ health.body = "OK"))
    /\ [] (health.code # 0 => phase = "Serving")
    /\ [][health' # health =>
            (rows' = rows /\ seq' = seq /\ channel' = channel /\ req' = req)]_vars

\* /health was answered 200 while a request's insert and another request's
\* publish have failed
C13_Witness ==
    /\ health.code = StatusOK
    /\ health.body = "OK"
    /\ \E r \in Requests : req[r].insErr
    /\ \E r \in Requests : req[r].pubErr

\* C14: the requests whose insert succeeded hold pairwise distinct
\* identifiers, one row each; when no insert failed the identifiers are
\* 1..N without a gap; a new row's identifier is larger than every earlier
\* one, and a request's identifier never changes.
C14_DistinctIdentifiers ==
    /\ [] (\A r1, r2 \in Inserted : r1 # r2 => req[r1].orderID # req[r2].orderID)
    /\ [] (\A r \in Inserted : Cardinality(RowsWithID(req[r].orderID)) = 1)
    /\ [] (Cardinality(rows) = Cardinality(Inserted))
    /\ [] ((\A r \in Requests : ~req[r].insErr)
              => { row.id : row \in rows } = 1..Cardinality(Inserted))
    /\ [][\A new \in rows' \ rows : \A old \in rows : new.id > old.id]_vars
    /\ [][rows \subseteq rows']_vars
    /\ [][\A r \in Requests :
            req[r].orderID # 0 => req'[r].orderID = req[r].orderID]_vars

\* every request inserted, and the first request got the last identifier
C14_Witness ==
    /\ Inserted = Requests
    /\ req[1].orderID = NumRequests
    /\ Cardinality(rows) = NumRequests

\* C15: every row has a non-negative quantity.
C15_QuantityNonNegative ==
    \A row \in rows : row.quantity >= 0

\* C16: a request makes at most one insert call and at most one publish
\* call, creates at most one row, and no two notifications carry the same
\* order identifier.
C16_SingleAttempt ==
    /\ \A r \in Requests :
          /\ req[r].inserts <= 1
          /\ req[r].publishes <= 1
          /\ req[r].insTried <=> req[r].inserts = 1
          /\ req[r].pubTried <=> req[r].publishes = 1
    /\ Cardinality(rows) <= Cardinality({ r \in Requests : req[r].inserts = 1 })
    /\ \A k1, k2 \in 1..Len(channel) :
          k1 # k2 => channel[k1].order_id # channel[k2].order_id

\* a failed insert and a failed publish were each left at one attempt
C16_Witness ==
    /\ \E r \in Requests :
          req[r].pc = "done" /\ req[r].insErr /\ req[r].inserts = 1
    /\ \E r \in Requests :
          req[r].pc = "done" /\ req[r].pubErr /\ req[r].publishes = 1

\* the status the precedence gives a finished request
ExpectedCode(r) ==
    IF req[r].method # "POST" THEN StatusMethodNotAllowed
    ELSE IF ~DecodeOK(req[r].body) THEN StatusBadRequest
    ELSE IF req[r].insErr THEN StatusInternalServerError
    ELSE StatusOK

\* C17: a finished request has status 405 when its method is not POST, else
\* 400 when its body does not decode, else 500 when its insert failed, else
\* 200, whether its publish failed or not; no status is sent before the
\* request is finished.
C17_StatusPrecedence ==
    \A r \in Requests :
        /\ req[r].pc = "done" => req[r].code = ExpectedCode(r)
        /\ req[r].pc # "done" => req[r].code = 0

\* one request got 200 although its publish failed, another got 500
C17_Witness ==
    /\ \E r \in Requests :
          req[r].pc = "done" /\ req[r].pubErr /\ req[r].code = StatusOK
    /\ \E r \in Requests :
          req[r].pc = "done" /\ req[r].code = StatusInternalServerError

\* C18: every notification has the identifier, product identifier and
\* quantity of the row inserted by its request, a product identifier without
\* denylisted characters, and the order_id and product_id of that request's
\* 200 response.
C18_NotificationIsProjection ==
    \A k \in 1..Len(channel) :
        /\ \A c \in Denylist :
              \A j \in 1..Len(channel[k].product_id) : channel[k].product_id[j] # c
        /\ \E r \in Requests :
              /\ req[r].orderID = channel[k].order_id
              /\ \A row \in RowsWithID(channel[k].order_id) :
                    /\ row.product_id = channel[k].product_id
                    /\ row.quantity = channel[k].quantity
              /\ RowsWithID(channel[k].order_id) # { }
              /\ req[r].code = StatusOK =>
                    /\ req[r].resp.order_id = channel[k].order_id
                    /\ req[r].resp.product_id = channel[k].product_id

\* C19: when the retry loop is over the waits are one fewer than the
\* attempts, and a wait is always followed by another attempt.
C19_WaitsOnlyBetweenAttempts ==
    /\ (attempts > 0 /\ (initpc \in { "check", "schema", "return" } \/ phase = "Failed"))
          => waits = attempts - 1
    /\ (phase = "StoreConnecting" /\ initpc = "attempt") => i < MaxAttempts

\* C20: a request publishes only after its own insert returned an
\* identifier, in every interleaving, while the order of the notifications
\* of different requests is free.
C20_OwnInsertBeforePublish ==
    /\ [] (\A r \in Requests :
              req[r].pubTried =>
                  /\ req[r].insTried /\ ~req[r].insErr
                  /\ req[r].orderID # 0
                  /\ RowsWithID(req[r].orderID) # { })
    /\ [][\A r \in Requests :
            req'[r].publishes > req[r].publishes =>
                (req[r].inserts = 1 /\ ~req[r].insErr /\ req[r].orderID # 0)]_vars

\* the notification of the larger identifier is on the channel before the
\* notification of the smaller one
C20_Witness ==
    \E k1, k2 \in 1..Len(channel) :
        /\ k1 < k2
        /\ channel[k1].order_id > channel[k2].order_id

\* C21: the 200 of a /buy request is written only once its publish attempt
\* has returned, with or without error: no request holds a response while its
\* handler is still before or in the publish, a request waiting to respond
\* has its publish behind it, and a request with a response is finished, so
\* nothing is published for it afterwards.
C21_ResponseAfterPublish ==
    \A r \in Requests :
        /\ req[r].code = StatusOK =>
              /\ req[r].pubTried
              /\ req[r].publishes = 1
        /\ req[r].pc \in { "insert", "publish", "respond" } => req[r].code = 0
        /\ req[r].pc = "respond" => req[r].pubTried
        /\ req[r].code # 0 => req[r].pc = "done"

\* one request has its 200 after a successful publish, while the notification
\* of another is on the channel before its response is written
C21_Witness ==
    \E r1, r2 \in Requests :
        /\ req[r1].code = StatusOK
        /\ ~req[r1].pubErr
        /\ req[r2].pc = "respond"
        /\ req[r2].code = 0
        /\ MsgsWithID(req[r2].orderID) # { }

\* C22: every row has status pending, and no step of the program changes or
\* removes a row that exists: the table only gains rows.
C22_RowsPendingAndKept ==
    /\ [](\A row \in rows : row.status = "pending")
    /\ [][rows \subseteq rows']_vars

\* a row is in the table after a later request failed its insert, another
\* request went through its publish and /health was answered
C22_Witness ==
    /\ \E row \in rows : row.status = "pending"
    /\ \E r1, r2 \in Requests :
          /\ req[r1].pc = "done" /\ req[r1].insErr
          /\ req[r2].pc = "done" /\ req[r2].code = StatusOK
    /\ health.code = StatusOK

\* C24: once the process serves, it keeps serving with the one store handle
\* and the one channel handle of its startup: no step taken while serving
\* changes db, rdb or the phase, whichever inserts and publishes failed.
C24_HandlesHeldWhileServing ==
    /\ [](phase = "Serving" => db = 1 /\ rdb = 1)
    /\ [][phase = "Serving" =>
              /\ phase' = "Serving"
              /\ db' = db
              /\ rdb' = rdb]_vars
    /\ [](\A r \in Requests :
              (req[r].insErr \/ req[r].pubErr) => phase = "Serving")

\* one request failed its insert on an identifier the store would take, and
\* a request got its row and its notification through the same handles
C24_Witness ==
    /\ phase = "Serving"
    /\ \E r1, r2 \in Requests :
          /\ req[r1].pc = "done" /\ req[r1].insErr
          /\ InsertAccepted(TRUE, req[r1].safeProductID)
          /\ req[r2].pc = "done" /\ req[r2].code = StatusOK /\ ~req[r2].pubErr
          /\ MsgsWithID(req[r2].orderID) # { }

\* C26: while the process is not serving (the store is being tried, the
\* channel is being pinged, or startup failed fatally) no /health response and
\* no /buy response was sent and no /buy request was taken up; whenever one
\* was, both handles exist and the single channel ping succeeded.
C26_NothingAnsweredBeforeServing ==
    /\ phase # "Serving" =>
          /\ health = NoHealth
          /\ \A r \in Requests : req[r].pc = "idle" /\ req[r].code = 0
    /\ (health.code # 0 \/ \E r \in Requests : req[r].pc # "idle") =>
          /\ phase = "Serving"
          /\ db = 1 /\ rdb = 1
          /\ pings = 1 /\ ~rerr

\* the store was tried ten times in vain and the process failed fatally:
\* /health was never answered
C26_Witness ==
    /\ phase = "Failed"
    /\ AllAttemptsFailed
    /\ health.code = 0

\* the POST requests taken up whose body decoded
Decoded ==
    { r \in Requests :
        req[r].pc # "idle" /\ req[r].method = "POST" /\ DecodeOK(req[r].body) }

\* C27: a POST /buy whose body decodes is never answered 400 and always
\* reaches the insert with the stripped product identifier and the decoded
\* quantity, 0 when the field is absent; when the stripped identifier is
\* empty (field absent, or only denylisted characters) the store takes the
\* row whenever it is reachable, the row has an empty product identifier and
\* that quantity, and the request is answered 200.
C27_EmptyFieldsAccepted ==
    \A r \in Decoded :
        /\ req[r].code # StatusBadRequest
        /\ req[r].safeProductID = Stripped(Decode(req[r].body).ProductID)
        /\ req[r].quantity =
              (IF req[r].body.hasQuantity THEN req[r].body.quantity ELSE 0)
        /\ req[r].pc = "done" => req[r].insTried
        /\ req[r].safeProductID = << >> =>
              /\ InsertAccepted(TRUE, req[r].safeProductID)
              /\ (req[r].insTried /\ ~req[r].insErr) =>
                    \E row \in rows :
                        /\ row.id = req[r].orderID
                        /\ row.product_id = << >>
                        /\ row.quantity = req[r].quantity
              /\ (req[r].pc = "done" /\ ~req[r].insErr) =>
                    /\ req[r].code = StatusOK
                    /\ req[r].resp.product_id = << >>

\* the body {} and a body whose product_id is only denylisted characters were
\* both stored with an empty product identifier and answered 200
C27_Witness ==
    \E r1, r2 \in Requests :
        /\ req[r1].body = Body(TRUE, FALSE, << >>, FALSE, 0)
        /\ req[r1].code = StatusOK
        /\ \E row \in rows :
              /\ row.id = req[r1].orderID
              /\ row.product_id = << >>
              /\ row.quantity = 0
        /\ req[r2].body = Body(TRUE, TRUE, << ";", "'" >>, TRUE, -1)
        /\ req[r2].code = StatusOK
        /\ \E row \in rows :
              /\ row.id = req[r2].orderID
              /\ row.product_id = << >>

\* C28: every row's product identifier has at most 50 characters; a request
\* whose sanitized product identifier is longer than 50 characters fails its
\* insert, is answered 500 and leaves no row and no notification, and a
\* request whose identifier is longer than 50 characters only before
\* sanitization is stored whenever the store is reachable.
C28_OverlongRejected ==
    /\ \A row \in rows : Len(row.product_id) <= VarcharLen
    /\ \A r \in Requests :
          (req[r].insTried /\ Len(req[r].safeProductID) > VarcharLen) =>
              /\ req[r].insErr
              /\ req[r].pc = "done"
              /\ req[r].code = StatusInternalServerError
              /\ req[r].orderID = 0
              /\ ~req[r].pubTried
    /\ EffectsAccounted
    /\ \A r \in Requests :
          (req[r].pc # "idle" /\ req[r].method = "POST" /\ DecodeOK(req[r].body)
             /\ Len(req[r].safeProductID) <= VarcharLen) =>
              InsertAccepted(TRUE, req[r].safeProductID)

\* a request taken up and not yet answered
InFlight(r) == req[r].pc \in { "insert", "publish", "respond" }

\* C25: when every store and channel call returns, from some point on no
\* /buy request is in flight: every request taken up stays taken up and ends
\* finished with a response; a response once written is never changed or
\* followed by another; and the next step of a request in flight is enabled
\* wherever the other requests stand, so a request sitting in a store or
\* channel call holds no other request back.
C25_EveryRequestAnswered ==
    /\ <>[](\A r \in Requests : ~InFlight(r))
    /\ [](\A r \in Requests : req[r].pc = "done" => req[r].code # 0)
    /\ [][\A r \in Requests :
            /\ req[r].pc # "idle" => req'[r].pc # "idle"
            /\ req[r].code # 0 => req'[r] = req[r]]_vars
    /\ [](\A r \in Requests : InFlight(r) => ENABLED BuyStep(r))

\* a request is answered 200 for a row inserted after the row of another
\* request, which still sits in its publish call
C25_Witness ==
    \E r1, r2 \in Requests :
        /\ req[r1].pc = "publish"
        /\ req[r2].pc = "done"
        /\ req[r2].code = StatusOK
        /\ req[r2].orderID > req[r1].orderID

\* requests whose process exited after their insert returned an identifier
\* and before their publish was made
Orphaned ==
    { r \in Requests :
        req[r].pc = "aborted" /\ req[r].insTried /\ ~req[r].insErr /\ ~req[r].pubTried }

\* C23: with exits at any point and restarts, a request whose process exited
\* between its successful insert and its publish keeps its row, has no
\* response, and at no later time is a notification with its identifier on
\* the channel; an abandoned request is never taken up again; no step removes
\* a row, and every notification names a row that is in the store.
C23_OrphanRowNeverAnnounced ==
    /\ [](\A r \in Orphaned :
              /\ Cardinality(RowsWithID(req[r].orderID)) = 1
              /\ MsgsWithID(req[r].orderID) = { }
              /\ req[r].code = 0)
    /\ [][\A r \in Requests : req[r].pc = "aborted" => req'[r] = req[r]]_vars
    /\ [][rows \subseteq rows' /\ seq' >= seq]_vars
    /\ [](\A k \in 1..Len(channel) : RowsWithID(channel[k].order_id) # { })

\* a request was abandoned between its insert and its publish, and the
\* restarted process has published the notification of a later request
C23_Witness ==
    /\ phase = "Serving"
    /\ \E r1, r2 \in Requests :
          /\ r1 \in Orphaned
          /\ req[r2].pc = "respond"
          /\ ~req[r2].pubErr
          /\ MsgsWithID(req[r2].orderID) # { }
          /\ MsgsWithID(req[r1].orderID) = { }

====
